---- MODULE Spec2Model ----
(***************************************************************************)
(* Model of url_analyzer_complete.py: a Streamlit script that loads a      *)
(* crawl export (CSV) or a sitemap, filters the rows, groups them by first *)
(* path segment and aggregates traffic metrics.                            *)
(*                                                                         *)
(* Representation of Python values                                         *)
(*   str          a sequence of one-character strings (so that parsing is  *)
(*                computed character by character)                         *)
(*   None, NaN    in a URL cell: one-element sequences holding a token     *)
(*                that is no character, so they never equal a str          *)
(*   dict/Series  a function from column name to cell value; the index     *)
(*                label of a DataFrame row (row.name) is the field "idx"   *)
(*   DataFrame    [loaded, rows]: loaded is FALSE for Python's None        *)
(*   float        an integer number of halves (Scale)                      *)
(***************************************************************************)
EXTENDS Integers, Sequences, FiniteSets, TLC

VARIABLES
    site,                \* environment: the rows of the site's crawl export
    data_source,         \* st.radio: "csv" or "sitemap"
    uploaded_file,       \* st.file_uploader: [kind, rows]
    selected_subdomain,  \* st.selectbox "subdomain_select"
    selected_codes,      \* st.multiselect "codes_select"
    event,               \* the interaction that triggered the last script run
    df,                  \* the dataset of the last run
    df_filtered,
    general_metrics,
    root_urls,
    structure,
    sorted_structure,
    status,              \* how far the last run got
    fn, arg, ret, pc     \* a direct call of one helper: function, input, result

sessionVars == <<site, data_source, uploaded_file, selected_subdomain,
                 selected_codes, event, df, df_filtered, general_metrics,
                 root_urls, structure, sorted_structure, status>>
callVars == <<fn, arg, ret, pc>>
vars == <<sessionVars, callVars>>

None == <<"None">>
NaN == <<"NaN">>
IsStr(v) == v # None /\ v # NaN

(***************************************************************************)
(* Sequence helpers                                                        *)
(***************************************************************************)
Range(s) == {s[i] : i \in 1..Len(s)}

\* str.find(c) over a set of characters, 1-based, from position `from`;
\* Len(s)+1 when there is none (the caller's "rest of the string").
FindFirst(s, chars, from) ==
    LET hits == {i \in from..Len(s) : s[i] \in chars}
    IN  IF hits = {} THEN Len(s) + 1
        ELSE CHOOSE i \in hits : \A j \in hits : i <= j

Slice(s, a, b) == IF a > b THEN <<>> ELSE SubSeq(s, a, b)

\* s.split(c, 1)[0]
Before(s, c) == Slice(s, 1, FindFirst(s, {c}, 1) - 1)

\* str.split(sep): the pieces between separators, empty pieces included
RECURSIVE split(_, _)
split(s, sep) ==
    IF sep \notin Range(s) THEN <<s>>
    ELSE <<Before(s, sep)>> \o split(Slice(s, FindFirst(s, {sep}, 1) + 1, Len(s)), sep)

(***************************************************************************)
(* urllib.parse.urlparse, as used at lines 121 and 135                     *)
(***************************************************************************)
Upper == {"H", "S"}
Letters == {"a", "b", "c", "d", "h", "l", "n", "o", "r", "s", "t", "u"} \cup Upper
scheme_chars == Letters \cup {"0", "1", "+", "-", "."}
lower(c) == IF c = "H" THEN "h" ELSE IF c = "S" THEN "s" ELSE c

\* url[:i].lower(), url[i+1:] when the text before the first ":" is a scheme
SplitSchemeAt(url, i) ==
    IF /\ i <= Len(url)
       /\ i > 1
       /\ url[1] \in Letters
       /\ \A k \in 1..(i - 1) : url[k] \in scheme_chars
    THEN [scheme |-> [k \in 1..(i - 1) |-> lower(url[k])],
          rest   |-> Slice(url, i + 1, Len(url))]
    ELSE [scheme |-> <<>>, rest |-> url]

\* _splitnetloc(url, 2): the authority ends at the first of "/", "?", "#"
SplitNetlocAt(url, delim) ==
    [netloc |-> Slice(url, 3, delim - 1), rest |-> Slice(url, delim, Len(url))]

SplitNetloc(url) ==
    IF Len(url) >= 2 /\ url[1] = "/" /\ url[2] = "/"
    THEN SplitNetlocAt(url, FindFirst(url, {"/", "?", "#"}, 3))
    ELSE [netloc |-> <<>>, rest |-> url]

\* "Invalid IPv6 URL"
Unbalanced(netloc) ==
    \/ "[" \in Range(netloc) /\ "]" \notin Range(netloc)
    \/ "]" \in Range(netloc) /\ "[" \notin Range(netloc)

ParseResult(scheme, nl) ==
    [raises |-> Unbalanced(nl.netloc),
     scheme |-> scheme,
     netloc |-> nl.netloc,
     path   |-> Before(Before(nl.rest, "#"), "?")]

AfterScheme(sc) == ParseResult(sc.scheme, SplitNetloc(sc.rest))

\* Raises for a value that is no str (float NaN has no .decode), and for an
\* authority with an unbalanced bracket. The ";params" split of urlparse is
\* left out: no modelled URL holds ";".
urlparse(url) ==
    IF ~IsStr(url)
    THEN [raises |-> TRUE, scheme |-> <<>>, netloc |-> <<>>, path |-> <<>>]
    ELSE AfterScheme(SplitSchemeAt(url, FindFirst(url, {":"}, 1)))

\* lines 122-128, for the path of line 123
Parts(domain, path) ==
    [domain |-> domain,
     path   |-> path,
     parts  |-> SelectSeq(split(path, "/"), LAMBDA p : p # <<>>)]

Parsed(parsed) ==
    Parts(parsed.scheme \o <<":", "/", "/">> \o parsed.netloc,
          IF parsed.path # <<>> THEN parsed.path ELSE <<"/">>)

ParsedOrNone(parsed) ==
    IF parsed.raises
    THEN [domain |-> None, path |-> None, parts |-> <<>>]
    ELSE Parsed(parsed)

\* lines 118-130
parse_url_structure(url) == ParsedOrNone(urlparse(url))

NetlocOrNone(parsed) == IF parsed.raises THEN None ELSE parsed.netloc

\* lines 132-138
get_subdomain(url) == NetlocOrNone(urlparse(url))

(***************************************************************************)
(* calculate_metrics, lines 174-195                                        *)
(*                                                                         *)
(* A metric cell is NaNf (empty in the CSV), Text (not a number) or Num(h), *)
(* a float64 given as h halves: halves add exactly in binary floating      *)
(* point, so the sum below is the sum pandas computes.                     *)
(***************************************************************************)
Scale == 2
NaNf == [k |-> "nan", v |-> 0]
Text == [k |-> "text", v |-> 0]
Num(h) == [k |-> "num", v |-> h]

URL_COL == "Dirección"
CODE_COL == "Código de respuesta"
SUB_COL == "Subdominio"
METRIC_COLS == {"GA4 Sessions", "Clics", "Impresiones"}

\* pd.to_numeric(cell, errors='coerce') followed by .fillna(0)
to_numeric_fillna(cell) ==
    IF cell.k = "num" THEN cell.v ELSE 0

RECURSIVE SeqSum(_)
SeqSum(s) == IF s = <<>> THEN 0 ELSE Head(s) + SeqSum(Tail(s))

\* int(x) of a float: truncation toward zero
int(h) == IF h >= 0 THEN h \div Scale ELSE -((-h) \div Scale)

\* pd.DataFrame(rows_list).columns: the union of the rows' keys
Columns(rows_list) == UNION {DOMAIN rows_list[i] : i \in 1..Len(rows_list)}

\* df.get(col, 0) is the column when it exists and the scalar 0 otherwise;
\* pd.to_numeric(0) returns the int 0, which has no .fillna: AttributeError.
MetricRaises(rows_list, col) == col \notin Columns(rows_list)

\* the sum with every row truncated before it is added
MetricSum_TruncPerRow(rows_list, col) ==
    SeqSum([i \in 1..Len(rows_list) |->
               IF col \in DOMAIN rows_list[i]
               THEN Scale * int(to_numeric_fillna(rows_list[i][col])) ELSE 0])

\* pd.to_numeric(df[col], errors='coerce').fillna(0).sum(); a row without the
\* key holds NaN in the DataFrame
MetricSum(rows_list, col) ==
    SeqSum([i \in 1..Len(rows_list) |->
               IF col \in DOMAIN rows_list[i]
               THEN to_numeric_fillna(rows_list[i][col]) ELSE 0])

Raised == [raised |-> TRUE, urls |-> 0, sessions |-> 0, clics |-> 0, impresiones |-> 0]

calculate_metrics(rows_list) ==
    IF rows_list = <<>>
    THEN [raised |-> FALSE, urls |-> 0, sessions |-> 0, clics |-> 0, impresiones |-> 0]
    ELSE IF \E col \in METRIC_COLS : MetricRaises(rows_list, col)
    THEN Raised
    ELSE [raised      |-> FALSE,
          urls        |-> Len(rows_list),
          sessions    |-> int(MetricSum(rows_list, "GA4 Sessions")),
          clics       |-> int(MetricSum(rows_list, "Clics")),
          impresiones |-> int(MetricSum(rows_list, "Impresiones"))]

(***************************************************************************)
(* format_number, lines 197-203                                            *)
(***************************************************************************)
RECURSIVE Log2Floor(_, _)
\* the largest e >= 0 with den * 2^e <= num (num >= den)
Log2Floor(num, den) == IF 2 * den <= num THEN 1 + Log2Floor(num, 2 * den) ELSE 0

Pow2Mod5(e) == CASE e % 4 = 0 -> 1 [] e % 4 = 1 -> 2 [] e % 4 = 2 -> 4 [] OTHER -> 3

\* The tenths digit string of f"{n/d:.1f}" for integers n >= d, d a power of
\* ten. n/d is the float64 nearest to the quotient and the format rounds that
\* float's exact value, half to even. Only when 10n/d is exactly q + 1/2 can
\* the float's error decide: n/d = a/20 with a = 2q+1. If 5 divides a the
\* float is exact and the tie goes to the even tenth; otherwise the 53-bit
\* significand is a*2^(50-e)/5 rounded, e = floor(log2(a/20)), and the float
\* lies above the quotient exactly when the remainder mod 5 is 3 or 4.
Tenths(n, d) ==
    LET q == (10 * n) \div d
        rem == (10 * n) % d
        a == 2 * q + 1
        r == (a * Pow2Mod5(50 - Log2Floor(a, 20))) % 5
    IN  IF 2 * rem < d THEN q
        ELSE IF 2 * rem > d THEN q + 1
        ELSE IF a % 5 = 0 THEN (IF q % 2 = 0 THEN q ELSE q + 1)
        ELSE IF r >= 3 THEN q + 1 ELSE q

OneDecimal(t) == ToString(t \div 10) \o "." \o ToString(t % 10)

MILLION == 1000000
THOUSAND == 1000

\* the suffix chosen from the rounded value instead of from num
format_number_RoundFirst(num) ==
    IF num >= THOUSAND /\ Tenths(num, THOUSAND) >= 10000
    THEN OneDecimal(Tenths(num, MILLION)) \o "M"
    ELSE IF num >= MILLION THEN OneDecimal(Tenths(num, MILLION)) \o "M"
    ELSE IF num >= THOUSAND THEN OneDecimal(Tenths(num, THOUSAND)) \o "K"
    ELSE ToString(num)

format_number(num) ==
    IF num >= MILLION THEN OneDecimal(Tenths(num, MILLION)) \o "M"
    ELSE IF num >= THOUSAND THEN OneDecimal(Tenths(num, THOUSAND)) \o "K"
    ELSE ToString(num)

(***************************************************************************)
(* build_directory_structure, lines 140-172                                *)
(*                                                                         *)
(* The defaultdict is a sequence of [key, rows] in key-insertion order.    *)
(* A filter that is None is the empty set / the value None.                *)
(***************************************************************************)
Todos == <<"T", "o", "d", "o", "s">>

\* str(c) of a response code
str(c) == ToString(c)

\* Python truthiness of a str-or-None value
Truthy(v) == v # None /\ v # <<>>

\* df[df[CODE_COL].astype(str).isin([str(c) for c in codes])]
FilterCodes(rows, codes) ==
    SelectSeq(rows, LAMBDA row : str(row[CODE_COL]) \in {str(c) : c \in codes})

\* structure[key].append(row)
AppendTo(struct, key, row) ==
    IF \E i \in 1..Len(struct) : struct[i].key = key
    THEN [i \in 1..Len(struct) |->
             IF struct[i].key = key
             THEN [key |-> key, rows |-> Append(struct[i].rows, row)]
             ELSE struct[i]]
    ELSE Append(struct, [key |-> key, rows |-> <<row>>])

\* lines 165-168
DirectoryKey(p) ==
    IF p.parts = <<>> \/ p.path = <<"/">> THEN <<"/">> ELSE <<"/">> \o p.parts[1]

\* a loop that skips nothing
Skipped_Never(url, p, subdomain_filter) == FALSE

\* the `continue` conditions of the loop body, lines 149-162, for the row's
\* url and p = parse_url_structure(url)
Skipped(url, p, subdomain_filter) ==
    \/ url = <<>> \/ url = NaN \/ url = None
    \/ ~Truthy(p.domain) \/ ~Truthy(p.path)
    \/ /\ Truthy(subdomain_filter)
       /\ subdomain_filter # Todos
       /\ get_subdomain(url) # subdomain_filter

\* one iteration of the loop of line 148
GroupStep(struct, row, p, subdomain_filter) ==
    IF Skipped(row[URL_COL], p, subdomain_filter) THEN struct
    ELSE AppendTo(struct, DirectoryKey(p), row)

RECURSIVE GroupLoop(_, _, _, _)
GroupLoop(rows, i, subdomain_filter, struct) ==
    IF i > Len(rows) THEN struct
    ELSE GroupLoop(rows, i + 1, subdomain_filter,
             GroupStep(struct, rows[i], parse_url_structure(rows[i][URL_COL]),
                       subdomain_filter))

build_directory_structure(rows, filter_codes, subdomain_filter) ==
    GroupLoop(IF filter_codes # {} THEN FilterCodes(rows, filter_codes) ELSE rows,
              1, subdomain_filter, <<>>)

(***************************************************************************)
(* The script body once a dataset is loaded, lines 245-404                 *)
(***************************************************************************)
\* line 252: df['Subdominio'] = df['Dirección'].apply(get_subdomain)
WithSubdomain(rows) ==
    [i \in 1..Len(rows) |-> rows[i] @@ (SUB_COL :> get_subdomain(rows[i][URL_COL]))]

\* line 253, the options of the selectbox after "Todos"
Subdomains(rows) ==
    {v \in {get_subdomain(rows[i][URL_COL]) : i \in 1..Len(rows)} : Truthy(v)}

\* lines 262-271, the options of the multiselect ({} without the column)
CodeOptions(rows) ==
    IF CODE_COL \in Columns(rows)
    THEN {rows[i][CODE_COL] : i \in 1..Len(rows)}
    ELSE {}

\* line 280
FilterSubdomain(rows, subdomain) ==
    IF subdomain # Todos
    THEN SelectSeq(rows, LAMBDA row : row[SUB_COL] = subdomain)
    ELSE rows

\* the code filter applied although nothing is selected
ApplyFilters_EmptyExcludes(rows, subdomain, codes) ==
    FilterSubdomain(FilterCodes(rows, codes), subdomain)

\* lines 274-280
ApplyFilters(rows, subdomain, codes) ==
    FilterSubdomain(IF codes # {} THEN FilterCodes(rows, codes) ELSE rows, subdomain)

\* line 344, for p = parse_url_structure(row['Dirección'])
IsRootParse(p) == p.path = <<"/">> \/ p.parts = <<>>

\* lines 341-345
RootUrls(rows) ==
    SelectSeq(rows, LAMBDA row : IsRootParse(parse_url_structure(row[URL_COL])))

\* line 397, the sort key
SessionsOf(item) == calculate_metrics(item.rows).sessions

\* an item placed in front of the items with an equal key
InsertAt_TiesFirst(sorted, item, k) ==
    Slice(sorted, 1, Cardinality({i \in 1..Len(sorted) : SessionsOf(sorted[i]) > k}))
    \o <<item>> \o
    Slice(sorted, Cardinality({i \in 1..Len(sorted) : SessionsOf(sorted[i]) > k}) + 1,
          Len(sorted))

\* sorted(items, key=..., reverse=True) is stable: an item with key k goes
\* behind every item whose key is at least k
InsertAt(sorted, item, k) ==
    Slice(sorted, 1, Cardinality({i \in 1..Len(sorted) : SessionsOf(sorted[i]) >= k}))
    \o <<item>> \o
    Slice(sorted, Cardinality({i \in 1..Len(sorted) : SessionsOf(sorted[i]) >= k}) + 1,
          Len(sorted))

RECURSIVE SortLoop(_, _, _)
SortLoop(items, i, sorted) ==
    IF i > Len(items) THEN sorted
    ELSE SortLoop(items, i + 1, InsertAt(sorted, items[i], SessionsOf(items[i])))

\* lines 394-404: the sort, then `del sorted_structure["/"]`
SortedStructure(struct) ==
    SelectSeq(SortLoop(struct, 1, <<>>), LAMBDA item : item.key # <<"/">>)

NoMetrics == [raised |-> FALSE, urls |-> 0, sessions |-> 0, clics |-> 0, impresiones |-> 0]
NoDf == [loaded |-> FALSE, rows |-> <<>>]

\* lines 336-404: the run gets to the end
ScriptRendered(rows, filtered, metrics, struct) ==
    [df               |-> [loaded |-> TRUE, rows |-> rows],
     df_filtered      |-> filtered,
     general_metrics  |-> metrics,
     root_urls        |-> RootUrls(filtered),
     structure        |-> struct,
     sorted_structure |-> SortedStructure(struct),
     status           |-> "rendered"]

\* a run that ends before the root URLs and the directories
ScriptEnded(frame, filtered, metrics, how) ==
    [df               |-> frame,
     df_filtered      |-> filtered,
     general_metrics  |-> metrics,
     root_urls        |-> <<>>,
     structure        |-> <<>>,
     sorted_structure |-> <<>>,
     status           |-> how]

\* line 296: calculate_metrics raises or the run goes on
ScriptMetrics(rows, filtered, metrics, subdomain, codes) ==
    IF metrics.raised
    THEN ScriptEnded([loaded |-> TRUE, rows |-> rows], filtered, metrics, "raised")
    ELSE ScriptRendered(rows, filtered, metrics,
             build_directory_structure(filtered, codes,
                 IF subdomain # Todos THEN subdomain ELSE None))

\* line 283: nothing is shown for an empty filtered frame
ScriptFiltered(rows, filtered, subdomain, codes) ==
    IF filtered = <<>>
    THEN ScriptEnded([loaded |-> TRUE, rows |-> rows], filtered, NoMetrics, "empty")
    ELSE ScriptMetrics(rows, filtered, calculate_metrics(filtered), subdomain, codes)

ScriptLoaded(rows, subdomain, codes) ==
    ScriptFiltered(rows, ApplyFilters(rows, subdomain, codes), subdomain, codes)

\* One run of the script from line 245 on, with the widget values of this run
Script(loaded, subdomain, codes) ==
    IF ~loaded.loaded \/ Len(loaded.rows) = 0
    THEN ScriptEnded(loaded, <<>>, NoMetrics, "no_data")
    ELSE ScriptLoaded(WithSubdomain(loaded.rows), subdomain, codes)

(***************************************************************************)
(* The site: the rows a crawl of it exports, and the URLs its sitemap      *)
(* lists. It is chosen once and does not change during a session.          *)
(***************************************************************************)
MaxRows == 2

U_ROOT == <<"h", ":", "/", "/", "a">>
U_B == <<"H", ":", "/", "/", "a", "/", "b">>
U_D == <<"h", ":", "/", "/", "c", "/", "/", "d", "/">>
NotAUrl == <<"n", "o", "t", " ", "a", " ", "u", "r", "l">>
U_BAD == <<"h", ":", "/", "/", "[">>
URLS == {U_ROOT, U_B, U_D, NotAUrl, U_BAD, NaN}
CODES == {200, 404}
SESSIONS == {Num(1), Num(2)}

CsvRow(i, url, code, sessions) ==
    [c \in {"idx", URL_COL, CODE_COL} \cup METRIC_COLS |->
        CASE c = "idx" -> i
          [] c = URL_COL -> url
          [] c = CODE_COL -> code
          [] c = "GA4 Sessions" -> sessions
          [] c = "Clics" -> Text
          [] OTHER -> NaNf]

Cells == URLS \X CODES \X SESSIONS

\* the export whose i-th row holds the cells f[i]
SiteOf(n, f) == [i \in 1..n |-> CsvRow(i - 1, f[i][1], f[i][2], f[i][3])]

\* site is one of the exports of at most MaxRows rows
IsSite(rows) == \E n \in 0..MaxRows : \E f \in [1..n -> Cells] : rows = SiteOf(n, f)

\* lines 86-98: the file decodes (UTF-8 with BOM, else Latin-1) or None
BadFile == [kind |-> "bad", rows |-> <<>>]
NoFile == [kind |-> "none", rows |-> <<>>]

load_csv_file(file) ==
    IF file.kind = "csv" THEN [loaded |-> TRUE, rows |-> file.rows] ELSE NoDf

\* lines 100-116 and 240-241: every <loc> text of the response in a frame
\* with the URL column alone; None for an HTTP error, a timeout or bad XML
SitemapLocs(rows) ==
    LET strs == SelectSeq(rows, LAMBDA row : IsStr(row[URL_COL]))
    IN  [i \in 1..Len(strs) |-> strs[i][URL_COL]]

FetchOutcomes == {"ok", "http_error", "timeout", "malformed_xml"}

fetch_sitemap_urls(outcome) ==
    IF outcome = "ok"
    THEN [returned |-> TRUE, urls |-> SitemapLocs(site)]
    ELSE [returned |-> FALSE, urls |-> <<>>]

SitemapFrame(urls) ==
    [i \in 1..Len(urls) |-> [c \in {"idx", URL_COL} |-> IF c = "idx" THEN i - 1 ELSE urls[i]]]

\* lines 237-241: `if sitemap_url:` and `if urls:`
FrameOf(got) ==
    IF got.returned /\ got.urls # <<>>
    THEN [loaded |-> TRUE, rows |-> SitemapFrame(got.urls)]
    ELSE NoDf

FetchedFrame(entered, outcome) ==
    IF entered THEN FrameOf(fetch_sitemap_urls(outcome)) ELSE NoDf

(***************************************************************************)
(* The session: every interaction reruns the script from the top, where    *)
(* line 223 sets df = None. Widget values persist between runs while their *)
(* widget is drawn; st.button is True only in the run its click triggers.  *)
(***************************************************************************)
\* the outcome r of a run, and the widget values it leaves: the filter widgets
\* are drawn, and keep their values, only when a dataset is loaded (line 245)
Rendered(r, subdomain, codes) ==
    /\ df' = r.df
    /\ df_filtered' = r.df_filtered
    /\ general_metrics' = r.general_metrics
    /\ root_urls' = r.root_urls
    /\ structure' = r.structure
    /\ sorted_structure' = r.sorted_structure
    /\ status' = r.status
    /\ selected_subdomain' = IF r.status = "no_data" THEN Todos ELSE subdomain
    /\ selected_codes' = IF r.status = "no_data" THEN {} ELSE codes

Render(loaded, subdomain, codes) ==
    Rendered(Script(loaded, subdomain, codes), subdomain, codes)

\* lines 225-230: a file is dropped on the uploader
UploadCSV(decodable) ==
    /\ pc = "session"
    /\ data_source = "csv"
    /\ uploaded_file' = IF decodable THEN [kind |-> "csv", rows |-> site] ELSE BadFile
    /\ event' = IF load_csv_file(uploaded_file').loaded THEN "load_ok" ELSE "load_failed"
    /\ Render(load_csv_file(uploaded_file'), Todos,
              CodeOptions(load_csv_file(uploaded_file').rows))
    /\ UNCHANGED <<site, data_source, callVars>>

\* lines 232-242: "Obtener URLs" is clicked
FetchSitemap(entered, outcome) ==
    /\ pc = "session"
    /\ data_source = "sitemap"
    /\ event' = IF ~entered THEN "no_url"
                ELSE IF FetchedFrame(entered, outcome).loaded THEN "load_ok"
                ELSE "load_failed"
    /\ Render(FetchedFrame(entered, outcome), Todos, {})
    /\ UNCHANGED <<site, data_source, uploaded_file, callVars>>

\* the dataset a rerun without upload or click loads: the uploader still
\* holds its file (lines 226-228), the button is False (line 236)
Reloaded == IF data_source = "csv" THEN load_csv_file(uploaded_file) ELSE NoDf

\* lines 255-259: another option of the selectbox is chosen
SelectSubdomain(subdomain) ==
    /\ pc = "session"
    /\ status # "no_data"
    /\ subdomain \in ({Todos} \cup Subdomains(df.rows)) \ {selected_subdomain}
    /\ event' = "filter"
    /\ Render(Reloaded, subdomain, selected_codes)
    /\ UNCHANGED <<site, data_source, uploaded_file, callVars>>

\* lines 262-269: a code is added to the multiselect or removed from it
SelectCodes(code) ==
    /\ pc = "session"
    /\ status # "no_data"
    /\ code \in CodeOptions(df.rows)
    /\ event' = "filter"
    /\ Render(Reloaded, selected_subdomain,
              IF code \in selected_codes THEN selected_codes \ {code}
              ELSE selected_codes \cup {code})
    /\ UNCHANGED <<site, data_source, uploaded_file, callVars>>

\* lines 217-221: the other source is chosen; its widgets start empty
SelectSource(source) ==
    /\ pc = "session"
    /\ source # data_source
    /\ data_source' = source
    /\ uploaded_file' = NoFile
    /\ event' = "source"
    /\ Render(NoDf, Todos, {})
    /\ UNCHANGED <<site, callVars>>

SessionStart ==
    /\ data_source = "csv"
    /\ uploaded_file = NoFile
    /\ selected_subdomain = Todos
    /\ selected_codes = {}
    /\ event = "start"
    /\ df = NoDf
    /\ df_filtered = <<>>
    /\ general_metrics = NoMetrics
    /\ root_urls = <<>>
    /\ structure = <<>>
    /\ sorted_structure = <<>>
    /\ status = "no_data"

Init ==
    /\ IsSite(site)
    /\ SessionStart
    /\ pc = "session" /\ fn = "script" /\ arg = <<>> /\ ret = <<>>

Next ==
    \/ \E decodable \in BOOLEAN : UploadCSV(decodable)
    \/ \E entered \in BOOLEAN, outcome \in FetchOutcomes : FetchSitemap(entered, outcome)
    \/ \E subdomain \in {Todos} \cup Subdomains(site) : SelectSubdomain(subdomain)
    \/ \E code \in CODES : SelectCodes(code)
    \/ \E source \in {"csv", "sitemap"} : SelectSource(source)

Spec == Init /\ [][Next]_vars

(***************************************************************************)
(* Direct calls of the helpers, outside a session.                         *)
(***************************************************************************)
NoSession == site = <<>> /\ SessionStart

Return(f, value) ==
    /\ pc = "call"
    /\ fn = f
    /\ ret' = value
    /\ pc' = "return"
    /\ UNCHANGED <<sessionVars, fn, arg>>

\* parse_url_structure on every string over Alphabet up to MaxUrlLen characters
MaxUrlLen == 5
Alphabet == {"S", ":", "/", "a", "[", "?"}

RECURSIVE StringsOf(_)
StringsOf(n) ==
    IF n = 0 THEN {<<>>}
    ELSE {Append(s, c) : s \in StringsOf(n - 1), c \in Alphabet}

Strings(most) == UNION {StringsOf(n) : n \in 0..most}

InitParse ==
    /\ NoSession
    /\ pc = "call" /\ fn = "parse_url_structure" /\ ret = <<>>
    /\ arg \in Strings(MaxUrlLen)

CallParse == Return("parse_url_structure", parse_url_structure(arg))

SpecParse == InitParse /\ [][CallParse]_vars

\* calculate_metrics on every list of up to MaxMetricRows rows that hold the
\* URL column and a subset of the metric columns
MaxMetricRows == 2
METRIC_CELLS == {NaNf, Text, Num(1), Num(-3)}

\* the rows with the columns cols whose i-th row holds the cells f[i]
RowsOver(cols, n, f) ==
    [i \in 1..n |-> [c \in {"idx", URL_COL} \cup cols |->
                        IF c = "idx" THEN i - 1
                        ELSE IF c = URL_COL THEN U_B
                        ELSE f[i][c]]]

InitMetrics ==
    /\ NoSession
    /\ pc = "call" /\ fn = "calculate_metrics" /\ ret = <<>>
    /\ \E cols \in SUBSET METRIC_COLS, n \in 0..MaxMetricRows :
           \E f \in [1..n -> [cols -> METRIC_CELLS]] : arg = RowsOver(cols, n, f)

CallMetrics == Return("calculate_metrics", calculate_metrics(arg))

SpecMetrics == InitMetrics /\ [][CallMetrics]_vars

\* format_number on the integers within Window of 0, of each threshold, of
\* each suffix's first midpoints between two tenths, and on 2.5 million
Window == 60

FormatInputs(w) ==
    (0..w)
    \cup ((THOUSAND - w)..(THOUSAND + w))
    \cup {THOUSAND + 50 * k : k \in 0..w}
    \cup ((MILLION - w)..(MILLION + w))
    \cup {MILLION + 50000 * k : k \in 0..w}
    \cup {1500, 2500000}

InitFormat ==
    /\ NoSession
    /\ pc = "call" /\ fn = "format_number" /\ ret = ""
    /\ arg \in FormatInputs(Window)

CallFormat == Return("format_number", format_number(arg))

SpecFormat == InitFormat /\ [][CallFormat]_vars

\* build_directory_structure on the rows of every site with every filter
GroupFilters ==
    {[filter_codes |-> fc, subdomain_filter |-> sf] :
        fc \in {{}, {200}}, sf \in {None, Todos, <<"a">>}}

InitGroup ==
    /\ NoSession
    /\ pc = "call" /\ fn = "build_directory_structure" /\ ret = <<>>
    /\ \E n \in 0..MaxRows : \E f \in [1..n -> Cells] : \E filters \in GroupFilters :
           arg = [rows |-> SiteOf(n, f), filters |-> filters]

CallGroup ==
    Return("build_directory_structure",
           build_directory_structure(arg.rows, arg.filters.filter_codes,
                                     arg.filters.subdomain_filter))

SpecGroup == InitGroup /\ [][CallGroup]_vars

(***************************************************************************)
(* Claims                                                                  *)
(***************************************************************************)
\* the rows of all groups of a structure, group after group
RECURSIVE Grouped(_)
Grouped(struct) ==
    IF struct = <<>> THEN <<>> ELSE Head(struct).rows \o Grouped(Tail(struct))

\* how many times a row is filed in a structure
Filings(struct, row) ==
    Cardinality({i \in 1..Len(Grouped(struct)) : Grouped(struct)[i] = row})

\* rows are listed in the order of their index labels
InInputOrder(rows) ==
    \A i, j \in 1..Len(rows) : i < j => rows[i]["idx"] < rows[j]["idx"]

UniqueKeys(struct) ==
    \A i, j \in 1..Len(struct) : struct[i].key = struct[j].key => i = j

GroupsInInputOrder(struct) == \A g \in 1..Len(struct) : InInputOrder(struct[g].rows)

\* a row the grouping has a group for: its URL is a non-empty string that
\* urlparse accepts, and it passes the filters the call was given
Groupable(row, filters) ==
    /\ IsStr(row[URL_COL]) /\ row[URL_COL] # <<>>
    /\ ~urlparse(row[URL_COL]).raises
    /\ filters.filter_codes = {} \/ row[CODE_COL] \in filters.filter_codes
    /\ \/ filters.subdomain_filter \in {None, Todos}
       \/ urlparse(row[URL_COL]).netloc = filters.subdomain_filter

\* C1 as stated: the groups of build_directory_structure partition its input
\* exactly (every input row in exactly one group, nothing else in a group,
\* input order kept inside a group), here for a call without filters.
C1_PartitionsInput ==
    (pc = "return" /\ arg.filters.filter_codes = {} /\ arg.filters.subdomain_filter = None)
    => /\ \A i \in 1..Len(arg.rows) : Filings(ret, arg.rows[i]) = 1
       /\ Len(Grouped(ret)) = Len(arg.rows)
       /\ UniqueKeys(ret)
       /\ GroupsInInputOrder(ret)

\* C1 amended: the groups partition exactly the rows that are not skipped,
\* those passing the call's filters whose URL is present and parses: each of
\* them is in exactly one group, no other row is in any group, keys are
\* unique and every group lists its rows in input order.
C1_PartitionsGroupable ==
    pc = "return"
    => /\ \A i \in 1..Len(arg.rows) :
              Filings(ret, arg.rows[i]) = IF Groupable(arg.rows[i], arg.filters) THEN 1 ELSE 0
       /\ \A i \in 1..Len(Grouped(ret)) : Grouped(ret)[i] \in Range(arg.rows)
       /\ UniqueKeys(ret)
       /\ GroupsInInputOrder(ret)

\* a call whose input holds a skipped row next to two rows filed in one group
C1_Witness ==
    /\ pc = "return"
    /\ \E i \in 1..Len(arg.rows) : ~Groupable(arg.rows[i], arg.filters)
    /\ \E g \in 1..Len(ret) : Len(ret[g].rows) >= 1
    /\ Len(Grouped(ret)) < Len(arg.rows)

\* the rows a rendered run shows in a group or among the root URLs
ShownUrls ==
    {Grouped(structure)[i][URL_COL] : i \in 1..Len(Grouped(structure))}
    \cup {root_urls[i][URL_COL] : i \in 1..Len(root_urls)}

\* C2 as stated: a row with a malformed URL ("not a url", or one the parser
\* rejects) is in no group and not among the root URLs of a completed run.
C2_MalformedAbsent ==
    status = "rendered" => ShownUrls \cap {NotAUrl, U_BAD} = {}

\* C3 as stated: a successful parse has a path that starts with "/", no empty
\* segment, and no segment at all when the path is "/".
C3_ParsedURLInvariant ==
    (pc = "return" /\ ret.path # None)
    => /\ ret.path # <<>> /\ ret.path[1] = "/"
       /\ \A i \in 1..Len(ret.parts) : ret.parts[i] # <<>>
       /\ ret.path = <<"/">> => ret.parts = <<>>

\* the value of a metric cell in halves, 0 when empty or not a number
Coerced(row, col) ==
    IF col \in DOMAIN row /\ row[col].k = "num" THEN row[col].v ELSE 0

RECURSIVE SumDown(_, _)
\* the sum of the first i numbers of a sequence, added from the i-th down
SumDown(nums, i) == IF i = 0 THEN 0 ELSE nums[i] + SumDown(nums, i - 1)

Total(rows, Op(_)) == SumDown([i \in 1..Len(rows) |-> Op(rows[i])], Len(rows))

\* m is x halves truncated toward zero
IsTruncationOf(m, x) ==
    IF x >= 0 THEN Scale * m <= x /\ x < Scale * (m + 1)
    ELSE Scale * (m - 1) < x /\ x <= Scale * m

TruncatedRow(row, col) ==
    CHOOSE m \in -2..2 : IsTruncationOf(m, Coerced(row, col))

C5_NeverRaises ==
    pc = "return"
    => /\ ~ret.raised
       /\ ret.urls = Len(arg)
       /\ arg = <<>> => ret = NoMetrics
       /\ "Clics" \notin Columns(arg) => ret.clics = 0

\* a row passes the origin filter and the response-code filter
Passes(row) ==
    /\ selected_subdomain = Todos \/ get_subdomain(row[URL_COL]) = selected_subdomain
    /\ selected_codes = {} \/ str(row[CODE_COL]) \in {str(c) : c \in selected_codes}

\* C6: the filtered rows are exactly the loaded rows that pass both filters,
\* in input order.
C6_FilteredExactly ==
    status # "no_data"
    => /\ \A i \in 1..Len(df.rows) :
              Passes(df.rows[i]) <=> df.rows[i] \in Range(df_filtered)
       /\ \A j \in 1..Len(df_filtered) : df_filtered[j] \in Range(df.rows)
       /\ InInputOrder(df_filtered)

\* with only 200 selected a 404 row is left out while another row is kept
C6_Witness ==
    /\ status = "rendered"
    /\ selected_codes = {200}
    /\ \E i \in 1..Len(df.rows) :
           df.rows[i][CODE_COL] = 404 /\ df.rows[i] \notin Range(df_filtered)
    /\ df_filtered # <<>>

\* the position of a key in the grouping's insertion order
InsertedAt(key) == CHOOSE g \in 1..Len(structure) : structure[g].key = key

\* C7: the ranked listing holds every group but the root group exactly once,
\* ordered by non-increasing sessions, equal sessions in insertion order.
C7_RankedListing ==
    status = "rendered"
    => /\ \A i \in 1..Len(sorted_structure) :
              /\ sorted_structure[i].key # <<"/">>
              /\ sorted_structure[i] \in Range(structure)
       /\ \A g \in 1..Len(structure) :
              structure[g].key # <<"/">>
              => Cardinality({i \in 1..Len(sorted_structure) :
                                 sorted_structure[i].key = structure[g].key}) = 1
       /\ \A i, j \in 1..Len(sorted_structure) :
              i < j
              => /\ SessionsOf(sorted_structure[i]) >= SessionsOf(sorted_structure[j])
                 /\ SessionsOf(sorted_structure[i]) = SessionsOf(sorted_structure[j])
                    => InsertedAt(sorted_structure[i].key)
                           < InsertedAt(sorted_structure[j].key)

\* two directories with equal sessions are listed
C7_Witness ==
    /\ status = "rendered"
    /\ Len(sorted_structure) = 2
    /\ SessionsOf(sorted_structure[1]) = SessionsOf(sorted_structure[2])

\* C8 as stated: a failed load or a filter change leaves a loaded dataset
\* (one with rows) as it was.
C8_DatasetKept ==
    [][(df.loaded /\ df.rows # <<>> /\ event' \in {"filter", "load_failed"})
       => df' = df]_vars

\* C9: the string is num when num < 1000; the tenth nearest to num/1000 and
\* "K" when 1000 <= num < 1,000,000; the tenth nearest to num/1,000,000 and
\* "M" from 1,000,000 on; the suffix follows from num, not from the rounded
\* value.
IsNearestTenth(text, num, unit, suffix) ==
    \E t \in ((10 * num) \div unit)..((10 * num) \div unit + 1) :
        /\ 2 * (10 * num - t * unit) <= unit
        /\ 2 * (t * unit - 10 * num) <= unit
        /\ text = ToString(t \div 10) \o "." \o ToString(t % 10) \o suffix

C9_FormatMagnitude ==
    pc = "return"
    => /\ arg < 1000 => ret = ToString(arg)
       /\ (arg >= 1000 /\ arg < 1000000) => IsNearestTenth(ret, arg, 1000, "K")
       /\ arg >= 1000000 => IsNearestTenth(ret, arg, 1000000, "M")
       /\ arg = 0 => ret = "0"
       /\ arg = 999 => ret = "999"
       /\ arg = 1500 => ret = "1.5K"
       /\ arg = 999999 => ret = "1000.0K"
       /\ arg = 2500000 => ret = "2.5M"

C9_Witness == pc = "return" /\ arg = 999999 /\ ret = "1000.0K"

\* the rows of the root group of the structure
RootGroup ==
    IF \E g \in 1..Len(structure) : structure[g].key = <<"/">>
    THEN structure[InsertedAt(<<"/">>)].rows
    ELSE <<>>

\* C10 as stated: the root URLs of a run are the rows of the "/" group of
\* the same run, in the same order.
C10_RootUrlsAreRootGroup ==
    status = "rendered" => root_urls = RootGroup

====
